---------------------------- MODULE Spec2Model ----------------------------
(***************************************************************************)
(* Model of chinese/edit.py of Chinese Support Redux:                      *)
(*   - the tone-rule pipeline: the version dispatch at module load, the    *)
(*     two extractors/injectors append_tone_styling_anki2_1_49 (Legacy)    *)
(*     and append_tone_styling_anki2_1_54 (Modern), and the execution of   *)
(*     the scripts they hand to the editor's web view;                     *)
(*   - EditManager: onToggle, updateButton, onFocusLost.                   *)
(* Python strings are sequences of one-character strings.                  *)
(***************************************************************************)
EXTENDS Integers, Sequences, FiniteSets, TLC

VARIABLES
    hostVersion,     \* the host's version, a sequence of numbers
    buildinfo,       \* anki.buildinfo.version, the dotted string
    tier,            \* what append_tone_styling is bound to ("none" before load)
    css,             \* editor.note.note_type()['css']
    fields,          \* number of editable fields: div.field roots / RichTextInput instances
    budget,          \* how many refreshes of the editor the run makes
    invocations,     \* calls of append_tone_styling(editor) so far
    rules,           \* the local `rules` of the last call
    warnings,        \* showWarning calls so far, in order
    evals,           \* scripts handed to editor.web.eval, in order
    ran,             \* how many of them the web view has executed
    applied,         \* Legacy: .css(property, value) assignments performed, in order
    uiLoaded,        \* Modern: require("anki/ui").loaded has resolved
    stylesReady,     \* Modern: instances whose customStyles promise has resolved
    pending,         \* Modern: <<script, instance>> reactions registered on customStyles
    sheet,           \* Modern: per instance, the rules of the userBase style sheet
    insertCalls,     \* Modern: sheet.insertRule calls performed, in order
    enabledModels,   \* config['enabledModels']
    tick,            \* flips at every EditManager handler call
    lastOp           \* what the last EditManager handler call did

coreVars == <<hostVersion, buildinfo, tier, css, fields, budget, invocations, rules,
              warnings, evals, ran, applied, uiLoaded, stylesReady, pending, sheet,
              insertCalls>>
editVars == <<enabledModels, tick, lastOp>>
vars == <<hostVersion, buildinfo, tier, css, fields, budget, invocations, rules,
          warnings, evals, ran, applied, uiLoaded, stylesReady, pending, sheet,
          insertCalls, enabledModels, tick, lastOp>>

---------------------------------------------------------------------------
(* Bounds of the model *)

MaxLines == 2
MaxFields == 2
MaxInvocations == 2

---------------------------------------------------------------------------
(* Python string and list primitives *)

Min(S) == CHOOSE x \in S : \A y \in S : x <= y
Max(S) == CHOOSE x \in S : \A y \in S : x >= y

Digits == <<"0", "1", "2", "3", "4", "5", "6", "7", "8", "9">>

IsDigit(c) == \E d \in 1..10 : Digits[d] = c

\* characters str.strip() removes
IsSpace(c) == c \in {" ", "\t"}

\* s.find(c, i): the first position >= i holding c, 0 when there is none
Find(s, c, i) ==
    LET hits == {j \in i..Len(s) : s[j] = c}
    IN  IF hits = {} THEN 0 ELSE Min(hits)

\* sub in s
In(sub, s) ==
    \E i \in 1..(Len(s) - Len(sub) + 1) : SubSeq(s, i, i + Len(sub) - 1) = sub

\* s.startswith(p)
StartsWith(s, p) == Len(s) >= Len(p) /\ SubSeq(s, 1, Len(p)) = p

\* s.split(c)
RECURSIVE Split(_, _)
Split(s, c) ==
    LET p == Find(s, c, 1)
    IN  IF p = 0 THEN <<s>>
        ELSE <<SubSeq(s, 1, p - 1)>> \o Split(SubSeq(s, p + 1, Len(s)), c)

\* s.rsplit(c, 1): the split at the last c
SplitOnceAtLast(s, c) ==
    LET hits == {j \in 1..Len(s) : s[j] = c}
    IN  IF hits = {} THEN <<s>>
        ELSE <<SubSeq(s, 1, Max(hits) - 1), SubSeq(s, Max(hits) + 1, Len(s))>>

\* s.split(c, 1)
SplitOnce(s, c) ==
    LET p == Find(s, c, 1)
    IN  IF p = 0 THEN <<s>>
        ELSE <<SubSeq(s, 1, p - 1), SubSeq(s, p + 1, Len(s))>>

\* s.strip()
Strip(s) ==
    LET keep == {j \in 1..Len(s) : ~IsSpace(s[j])}
    IN  IF keep = {} THEN <<>> ELSE SubSeq(s, Min(keep), Max(keep))

\* str(n) for n >= 0
RECURSIVE Str(_)
Str(n) == IF n < 10 THEN <<Digits[n + 1]>> ELSE Str(n \div 10) \o <<Digits[(n % 10) + 1]>>

DigitValue(c) == (CHOOSE d \in 1..10 : Digits[d] = c) - 1

\* int(s) for a string of digits
RECURSIVE ParseInt(_)
ParseInt(s) ==
    IF Len(s) = 0 THEN 0
    ELSE 10 * ParseInt(SubSeq(s, 1, Len(s) - 1)) + DigitValue(s[Len(s)])

\* sep.join(parts)
RECURSIVE Join(_, _)
Join(parts, sep) ==
    IF Len(parts) = 0 THEN <<>>
    ELSE IF Len(parts) = 1 THEN parts[1]
    ELSE parts[1] \o <<sep>> \o Join(Tail(parts), sep)

\* a < b on lists of numbers (lexicographic; a proper prefix is smaller)
RECURSIVE ListLess(_, _)
ListLess(a, b) ==
    IF Len(b) = 0 THEN FALSE
    ELSE IF Len(a) = 0 THEN TRUE
    ELSE IF a[1] # b[1] THEN a[1] < b[1]
    ELSE ListLess(Tail(a), Tail(b))

\* l.pop(0): the first element goes, whatever it is
ListRemoveHead(l, x) == Tail(l)

\* l.remove(x): the first occurrence goes
ListRemove(l, x) ==
    LET p == Find(l, x, 1)
    IN  SubSeq(l, 1, p - 1) \o SubSeq(l, p + 1, Len(l))

\* l.append(x)
ListAppend(l, x) == Append(l, x)

\* x in l
ListHas(l, x) == \E j \in 1..Len(l) : l[j] = x

---------------------------------------------------------------------------
(* TONE_CSS_RULE: a dot, tone, one digit, spaces, an opening brace, any run
   of characters other than a closing brace, a closing brace *)

DotTone == <<".", "t", "o", "n", "e">>

NoMatch == [found |-> FALSE]

\* the first position >= i that holds no space character (Len + 1 at the end)
SkipSpaces(line, i) ==
    LET stops == {j \in i..Len(line) : line[j] # " "}
    IN  IF stops = {} THEN Len(line) + 1 ELSE Min(stops)

\* the match with any character accepted where the digit stands
MatchAtAnyCharacter(line, i) ==
    IF ~(i + 5 <= Len(line) /\ SubSeq(line, i, i + 4) = DotTone)
    THEN NoMatch
    ELSE LET open == SkipSpaces(line, i + 6)
         IN  IF ~(open <= Len(line) /\ line[open] = "{") THEN NoMatch
             ELSE LET close == Find(line, "}", open + 1)
                  IN  IF close = 0 THEN NoMatch
                      ELSE [found |-> TRUE,
                            start |-> i,
                            end |-> close,
                            group1 |-> SubSeq(line, i, i + 5),
                            group2 |-> SubSeq(line, open + 1, close - 1)]

\* the match starting at position i, if the pattern matches there
MatchAt(line, i) ==
    IF ~(i + 5 <= Len(line) /\ SubSeq(line, i, i + 4) = DotTone /\ IsDigit(line[i + 5]))
    THEN NoMatch
    ELSE LET open == SkipSpaces(line, i + 6)
         IN  IF ~(open <= Len(line) /\ line[open] = "{") THEN NoMatch
             ELSE LET close == Find(line, "}", open + 1)
                  IN  IF close = 0 THEN NoMatch
                      ELSE [found |-> TRUE,
                            start |-> i,
                            end |-> close,
                            group1 |-> SubSeq(line, i, i + 5),
                            group2 |-> SubSeq(line, open + 1, close - 1)]

\* TONE_CSS_RULE.search(line): the leftmost match
RuleSearch(line) ==
    LET starts == {i \in 1..Len(line) : MatchAt(line, i).found}
    IN  IF starts = {} THEN NoMatch ELSE MatchAt(line, Min(starts))

---------------------------------------------------------------------------
(* Inputs: stylesheet lines, stylesheets and host versions *)

\* .tone1 { color: red; }
LineRed ==
    <<".", "t", "o", "n", "e", "1", " ", "{", " ", "c", "o", "l", "o", "r", ":", " ", "r", "e", "d", ";", " ", "}">>
\* .tone2 {color:blue}
LineBlue ==
    <<".", "t", "o", "n", "e", "2", " ", "{", "c", "o", "l", "o", "r", ":", "b", "l", "u", "e", "}">>
\* .tone3 { color: green
LineUnclosed ==
    <<".", "t", "o", "n", "e", "3", " ", "{", " ", "c", "o", "l", "o", "r", ":", " ", "g", "r", "e", "e", "n">>
\*   .tone1 {a:b}      (indented)
LineIndented ==
    <<" ", " ", ".", "t", "o", "n", "e", "1", " ", "{", "a", ":", "b", "}">>
\* .tone1 {}
LineEmptyBody ==
    <<".", "t", "o", "n", "e", "1", " ", "{", "}">>
\* body {m:0}
LineBody ==
    <<"b", "o", "d", "y", " ", "{", "m", ":", "0", "}">>
\* .tone4 {a:b} x
LineTrailing ==
    <<".", "t", "o", "n", "e", "4", " ", "{", "a", ":", "b", "}", " ", "x">>
\* .tone5 {a:b:c; d ;e : f }
LineMulti ==
    <<".", "t", "o", "n", "e", "5", " ", "{", "a", ":", "b", ":", "c", ";", " ", "d", " ", ";", "e", " ", ":", " ", "f", " ", "}">>
\* .tonex {a:b}
LineNoDigit ==
    <<".", "t", "o", "n", "e", "x", " ", "{", "a", ":", "b", "}">>
\* .tone1<TAB>{a:b}
LineTab ==
    <<".", "t", "o", "n", "e", "1", "\t", "{", "a", ":", "b", "}">>
\* .tones .tone2{x:y}
LineLate ==
    <<".", "t", "o", "n", "e", "s", " ", ".", "t", "o", "n", "e", "2", "{", "x", ":", "y", "}">>

Lines ==
    {LineRed, LineBlue, LineUnclosed, LineIndented, LineEmptyBody, LineBody,
     LineTrailing, LineMulti, LineNoDigit, LineTab, LineLate, <<>>}

\* the stylesheets of at most MaxLines of these lines
Stylesheets ==
    {Join(ls, "\n") : ls \in UNION {[1..n -> Lines] : n \in 1..MaxLines}}

\* the stylesheets the runs of the asynchronous part use: 0, 1 and 2 rules
FewStylesheets ==
    {LineBody, LineBlue, Join(<<LineRed, LineUnclosed, LineEmptyBody>>, "\n")}

PatchLevels == {5, 49, 50, 51, 53, 54, 60, 100}

HostVersions ==
    {<<a, b, c>> : a \in {1, 2, 3}, b \in {0, 1, 2}, c \in PatchLevels}
        \cup {<<2, 1>>, <<23, 10>>}

\* the dotted version string of a host
VersionString(v) == Join([j \in 1..Len(v) |-> Str(v[j])], ".")

---------------------------------------------------------------------------
(* Version dispatch, at module load *)

\* [int(x) for x in anki.buildinfo.version.split('.')]
ParseVersion(s) ==
    LET parts == Split(s, ".")
    IN  [j \in 1..Len(parts) |-> ParseInt(parts[j])]

\* the dispatch with the Legacy boundary taken inclusively
SelectTierInclusive(version) ==
    IF ListLess(version, <<2, 1, 51>>) THEN "Legacy"
    ELSE IF ~ListLess(version, <<2, 1, 54>>) THEN "Modern"
    ELSE "Unsupported"

SelectTier(version) ==
    IF ListLess(version, <<2, 1, 50>>) THEN "Legacy"
    ELSE IF ~ListLess(version, <<2, 1, 54>>) THEN "Modern"
    ELSE "Unsupported"

LoadModule ==
    /\ tier = "none"
    /\ tier' = SelectTier(ParseVersion(buildinfo))
    /\ warnings' = IF tier' = "Unsupported"
                   THEN Append(warnings, "unsupported") ELSE warnings
    /\ UNCHANGED <<hostVersion, buildinfo, css, fields, budget, invocations, rules,
                   evals, ran, applied, uiLoaded, stylesReady, pending, sheet,
                   insertCalls, enabledModels, tick, lastOp>>

---------------------------------------------------------------------------
(* append_tone_styling_anki2_1_54: extraction and script *)

IsCandidate54(line) == In(DotTone, line)

\* the loop giving up at the first line it cannot parse
RECURSIVE Scan54StopAtMalformed(_, _, _)
Scan54StopAtMalformed(lines, rs, ws) ==
    IF Len(lines) = 0 THEN [rules |-> rs, warned |-> ws]
    ELSE LET line == Head(lines)
         IN  IF In(DotTone, line)
             THEN IF RuleSearch(line).found
                  THEN Scan54StopAtMalformed(Tail(lines), Append(rs, line), ws)
                  ELSE [rules |-> rs, warned |-> Append(ws, "oneliner")]
             ELSE Scan54StopAtMalformed(Tail(lines), rs, ws)

\* the loop keeping the matched text instead of the line
RECURSIVE Scan54MatchedText(_, _, _)
Scan54MatchedText(lines, rs, ws) ==
    IF Len(lines) = 0 THEN [rules |-> rs, warned |-> ws]
    ELSE LET line == Head(lines)
             m == RuleSearch(line)
         IN  IF In(DotTone, line)
             THEN IF m.found
                  THEN Scan54MatchedText(Tail(lines),
                                         Append(rs, SubSeq(line, m.start, m.end)), ws)
                  ELSE Scan54MatchedText(Tail(lines), rs, Append(ws, "oneliner"))
             ELSE Scan54MatchedText(Tail(lines), rs, ws)

\* the loop over the lines: rs the rules so far, ws the warnings so far
RECURSIVE Scan54(_, _, _)
Scan54(lines, rs, ws) ==
    IF Len(lines) = 0 THEN [rules |-> rs, warned |-> ws]
    ELSE LET line == Head(lines)
         IN  IF IsCandidate54(line)
             THEN IF RuleSearch(line).found
                  THEN Scan54(Tail(lines), ListAppend(rs, line), ws)
                  ELSE Scan54(Tail(lines), rs, Append(ws, "oneliner"))
             ELSE Scan54(Tail(lines), rs, ws)

Extract54(text) == Scan54(Split(text, "\n"), <<>>, <<>>)

\* json.dumps of one string: the text between the quotes
RECURSIVE JsonDumps(_)
JsonDumps(str) ==
    IF Len(str) = 0 THEN <<>>
    ELSE (CASE Head(str) = "\t" -> <<"\\", "t">>
            [] Head(str) = "\n" -> <<"\\", "n">>
            [] Head(str) = "\"" -> <<"\\", "\"">>
            [] Head(str) = "\\" -> <<"\\", "\\">>
            [] OTHER -> <<Head(str)>>) \o JsonDumps(Tail(str))

\* the string a JavaScript string literal with that text denotes
RECURSIVE JsString(_)
JsString(lit) ==
    IF Len(lit) = 0 THEN <<>>
    ELSE IF Head(lit) = "\\" /\ Len(lit) >= 2
         THEN <<(CASE lit[2] = "t" -> "\t"
                   [] lit[2] = "n" -> "\n"
                   [] OTHER -> lit[2])>> \o JsString(SubSeq(lit, 3, Len(lit)))
         ELSE <<Head(lit)>> \o JsString(Tail(lit))

\* var CSSRULES = json.dumps(rules); loaded.then(... insertRule ...)
Script54(rs) == [kind |-> "insert", cssrules |-> [j \in 1..Len(rs) |-> JsonDumps(rs[j])]]

\* the array CSSRULES of a dispatched script, as the web view reads it
CssRules(script) == [j \in 1..Len(script.cssrules) |-> JsString(script.cssrules[j])]

\* the injector dispatching only when a rule was extracted
Invoke54SkipEmpty ==
    LET r == Extract54(css)
    IN  /\ rules' = r.rules
        /\ warnings' = warnings \o r.warned
        /\ evals' = IF r.rules = <<>> THEN evals ELSE Append(evals, Script54(r.rules))

Invoke54 ==
    LET r == Extract54(css)
    IN  /\ rules' = r.rules
        /\ warnings' = warnings \o r.warned
        /\ evals' = Append(evals, Script54(r.rules))

---------------------------------------------------------------------------
(* append_tone_styling_anki2_1_49: extraction and script *)

IsCandidate49(line) == StartsWith(line, DotTone)

RECURSIVE Scan49(_, _, _)
Scan49(lines, rs, ws) ==
    IF Len(lines) = 0 THEN [rules |-> rs, warned |-> ws]
    ELSE LET line == Head(lines)
             m == RuleSearch(line)
         IN  IF IsCandidate49(line)
             THEN IF m.found
                  THEN Scan49(Tail(lines), ListAppend(rs, <<m.group1, m.group2>>), ws)
                  ELSE Scan49(Tail(lines), rs, Append(ws, "oneliner"))
             ELSE Scan49(Tail(lines), rs, ws)

Extract49(text) == Scan49(Split(text, "\n"), <<>>, <<>>)

\* one part of a declaration body: the statement it adds to inner_js, if any
PartStatements(rulename, part) ==
    IF In(<<":">>, part)
    THEN LET pv == SplitOnce(part, ":")
         IN  <<[sel |-> Strip(rulename), prop |-> Strip(pv[1]), val |-> Strip(pv[2])]>>
    ELSE <<>>

RECURSIVE RuleStatements(_, _)
RuleStatements(rulename, parts) ==
    IF Len(parts) = 0 THEN <<>>
    ELSE PartStatements(rulename, Head(parts)) \o RuleStatements(rulename, Tail(parts))

\* inner_js: the statements of all rules, in order
RECURSIVE InnerJs(_)
InnerJs(rs) ==
    IF Len(rs) = 0 THEN <<>>
    ELSE RuleStatements(rs[1][1], Split(rs[1][2], ";")) \o InnerJs(Tail(rs))

\* jQuery('div.field').each(function () { inner_js })
Script49(rs) == [kind |-> "each", selector |-> "div.field", body |-> InnerJs(rs)]

Invoke49 ==
    LET r == Extract49(css)
    IN  /\ rules' = r.rules
        /\ warnings' = warnings \o r.warned
        /\ evals' = Append(evals, Script49(r.rules))

---------------------------------------------------------------------------
(* append_tone_styling(editor), as bound at load *)

InvokeNoop == UNCHANGED <<rules, warnings, evals>>

Invoke ==
    /\ tier # "none"
    /\ invocations < budget
    /\ invocations' = invocations + 1
    /\ CASE tier = "Legacy" -> Invoke49
         [] tier = "Modern" -> Invoke54
         [] OTHER -> InvokeNoop
    /\ UNCHANGED <<hostVersion, buildinfo, tier, css, fields, budget, ran, applied,
                   uiLoaded, stylesReady, pending, sheet, insertCalls,
                   enabledModels, tick, lastOp>>

---------------------------------------------------------------------------
(* The web view: execution of the dispatched scripts *)

\* the host has the anki/ui and anki/RichTextInput modules
HasRichTextInput == ~ListLess(hostVersion, <<2, 1, 54>>)

\* the statements run on the first field root only
EachFieldFirstOnly(root, last, body) ==
    [j \in 1..Len(body) |->
        [root |-> root, sel |-> body[j].sel, prop |-> body[j].prop, val |-> body[j].val]]

\* jQuery('div.field').each(...): the statements, once per field root
RECURSIVE EachField(_, _, _)
EachField(root, last, body) ==
    IF root > last THEN <<>>
    ELSE [j \in 1..Len(body) |->
             [root |-> root, sel |-> body[j].sel, prop |-> body[j].prop,
              val |-> body[j].val]] \o EachField(root + 1, last, body)

\* CSSRULES.forEach(rule => sheet.insertRule(rule)) on the rules sh of a sheet:
\* insertRule without an index puts the rule first in the sheet
RECURSIVE InsertRules(_, _)
InsertRules(batch, sh) ==
    IF Len(batch) = 0 THEN sh
    ELSE InsertRules(Tail(batch), <<Head(batch)>> \o sh)

\* the insertRule calls that forEach makes for script k on instance inst
InsertRuleCalls(k, inst) ==
    [j \in 1..Len(CssRules(evals[k])) |->
        [script |-> k, inst |-> inst, rule |-> CssRules(evals[k])[j]]]

\* the customStyles reactions rs (pairs <<script, instance>>) from number j on,
\* run in order: the sheets they leave
RECURSIVE SheetsAfter(_, _, _)
SheetsAfter(rs, j, sheets) ==
    IF j > Len(rs) THEN sheets
    ELSE SheetsAfter(rs, j + 1,
            [sheets EXCEPT ![rs[j][2]] = InsertRules(CssRules(evals[rs[j][1]]), @)])

\* and the insertRule calls they make
RECURSIVE CallsAfter(_, _)
CallsAfter(rs, j) ==
    IF j > Len(rs) THEN <<>>
    ELSE InsertRuleCalls(rs[j][1], rs[j][2]) \o CallsAfter(rs, j + 1)

RunReactions(rs) ==
    /\ sheet' = SheetsAfter(rs, 1, sheet)
    /\ insertCalls' = insertCalls \o CallsAfter(rs, 1)

\* instances.forEach(inst => inst.customStyles.then(...)) for the scripts ks, in
\* order: the reactions this registers, script by script, instance by instance
Registered(ks) ==
    [p \in 1..(Len(ks) * fields) |->
        <<ks[((p - 1) \div fields) + 1], ((p - 1) % fields) + 1>>]

IsReady(reaction) == reaction[2] \in stylesReady

IsWaiting(reaction) == reaction[2] \notin stylesReady

\* the callbacks inserting at once, without waiting for customStyles
EnumerateNoWait(ks) ==
    /\ RunReactions(Registered(ks))
    /\ pending' = pending

\* the loaded.then callbacks of the scripts ks run: reactions on resolved
\* customStyles run in the same turn, the others wait
Enumerate(ks) ==
    LET regs == Registered(ks)
        later == SelectSeq(regs, IsWaiting)
    IN  /\ RunReactions(SelectSeq(regs, IsReady))
        /\ pending' = pending \cup {later[j] : j \in 1..Len(later)}

RECURSIVE Ascending(_)
Ascending(S) == IF S = {} THEN <<>> ELSE <<Min(S)>> \o Ascending(S \ {Min(S)})

\* the web view executes the next dispatched script
RunScript ==
    /\ ran < Len(evals)
    /\ ran' = ran + 1
    /\ IF evals[ran + 1].kind = "each"
       THEN /\ applied' = applied \o EachField(1, fields, evals[ran + 1].body)
            /\ UNCHANGED <<sheet, insertCalls, pending>>
       ELSE /\ applied' = applied
            /\ IF uiLoaded
               THEN Enumerate(<<ran + 1>>)
               ELSE UNCHANGED <<sheet, insertCalls, pending>>
    /\ UNCHANGED <<hostVersion, buildinfo, tier, css, fields, budget, invocations,
                   rules, warnings, evals, uiLoaded, stylesReady,
                   enabledModels, tick, lastOp>>

\* the host resolves require("anki/ui").loaded: the callbacks of the scripts
\* executed so far run in the order they were registered
ResolveLoaded ==
    /\ HasRichTextInput
    /\ ~uiLoaded
    /\ uiLoaded' = TRUE
    /\ Enumerate([k \in 1..ran |-> k])
    /\ UNCHANGED <<hostVersion, buildinfo, tier, css, fields, budget, invocations,
                   rules, warnings, evals, ran, applied, stylesReady,
                   enabledModels, tick, lastOp>>

\* customStyles resolving with only the latest script's reaction kept
ResolveCustomStylesLatestOnly(inst) ==
    /\ HasRichTextInput
    /\ inst \in 1..fields
    /\ inst \notin stylesReady
    /\ stylesReady' = stylesReady \cup {inst}
    /\ LET waiting == {k \in 1..ran : <<k, inst>> \in pending}
           ks == IF waiting = {} THEN <<>> ELSE <<Max(waiting)>>
       IN  /\ RunReactions([j \in 1..Len(ks) |-> <<ks[j], inst>>])
           /\ pending' = {p \in pending : p[2] # inst}
    /\ UNCHANGED <<hostVersion, buildinfo, tier, css, fields, budget, invocations,
                   rules, warnings, evals, ran, applied, uiLoaded,
                   enabledModels, tick, lastOp>>

\* the host resolves inst.customStyles: the reactions registered on it run in
\* the order they were registered
ResolveCustomStyles(inst) ==
    /\ HasRichTextInput
    /\ inst \in 1..fields
    /\ inst \notin stylesReady
    /\ stylesReady' = stylesReady \cup {inst}
    /\ LET ks == Ascending({k \in 1..ran : <<k, inst>> \in pending})
       IN  /\ RunReactions([j \in 1..Len(ks) |-> <<ks[j], inst>>])
           /\ pending' = {p \in pending : p[2] # inst}
    /\ UNCHANGED <<hostVersion, buildinfo, tier, css, fields, budget, invocations,
                   rules, warnings, evals, ran, applied, uiLoaded,
                   enabledModels, tick, lastOp>>

---------------------------------------------------------------------------
(* Specifications of the tone-rule pipeline *)

InitEdit0 ==
    /\ enabledModels = <<>>
    /\ tick = 0
    /\ lastOp = [op |-> "none", mid |-> <<>>, sent |-> "none", saved |-> FALSE,
                 updated |-> FALSE, refreshed |-> -1, ret |-> "None"]

InitCore(versions, sheets, fieldCounts, refreshes, loaded) ==
    /\ hostVersion \in versions
    /\ buildinfo = VersionString(hostVersion)
    /\ tier = "none"
    /\ css \in sheets
    /\ fields \in fieldCounts
    /\ budget = refreshes
    /\ invocations = 0
    /\ rules = <<>>
    /\ warnings = <<>>
    /\ evals = <<>>
    /\ ran = 0
    /\ applied = <<>>
    /\ uiLoaded = loaded
    /\ stylesReady = IF loaded THEN 1..fields ELSE {}
    /\ pending = {}
    /\ sheet = [i \in 1..fields |-> <<>>]
    /\ insertCalls = <<>>

\* the version dispatch: every host version, one refresh
InitDispatch ==
    /\ InitCore(HostVersions, {LineBody, LineUnclosed}, {1}, 1, TRUE)
    /\ InitEdit0

\* extraction and script generation: every stylesheet, one refresh, the editor
\* already loaded
InitExtract ==
    /\ InitCore({<<2, 1, 49>>, <<2, 1, 51>>, <<2, 1, 54>>}, Stylesheets,
                1..MaxFields, 1, TRUE)
    /\ InitEdit0

\* the scripts in the web view: several refreshes while the editor loads
InitAsync ==
    /\ InitCore({<<2, 1, 49>>, <<2, 1, 51>>, <<2, 1, 54>>}, FewStylesheets,
                1..MaxFields, MaxInvocations, FALSE)
    /\ InitEdit0

NextSync == LoadModule \/ Invoke \/ RunScript

NextCore ==
    \/ LoadModule
    \/ Invoke
    \/ RunScript
    \/ ResolveLoaded
    \/ \E inst \in 1..fields : ResolveCustomStyles(inst)

SpecDispatch == InitDispatch /\ [][NextSync]_vars

SpecExtract == InitExtract /\ [][NextSync]_vars

SpecAsync == InitAsync /\ [][NextCore]_vars

\* a step of the web view: a script executed, a promise resolved
WebViewStep ==
    \/ RunScript
    \/ ResolveLoaded
    \/ \E inst \in 1..fields : ResolveCustomStyles(inst)

\* the web view goes on executing the scripts it is handed and resolving the
\* promises of the editor
FairAsync == InitAsync /\ [][NextCore]_vars /\ WF_vars(WebViewStep)

---------------------------------------------------------------------------
(* EditManager *)

NoteTypeIds == {1, 2, 13}

NoOp == [op |-> "none", mid |-> <<>>, sent |-> "none", saved |-> FALSE,
         updated |-> FALSE, refreshed |-> -1, ret |-> "None"]

\* onToggle(editor), the editor's note having note type id
OnToggle(id) ==
    LET mid == Str(id)
        enabled == ~ListHas(enabledModels, mid)
    IN  /\ enabledModels' = IF enabled THEN ListAppend(enabledModels, mid)
                            ELSE ListRemove(enabledModels, mid)
        /\ lastOp' = [NoOp EXCEPT !.op = "toggle", !.mid = mid,
                                  !.sent = IF enabled THEN "activate" ELSE "deactivate",
                                  !.saved = TRUE]
        /\ tick' = 1 - tick
        /\ UNCHANGED coreVars

\* updateButton(editor)
UpdateButton(id) ==
    LET mid == Str(id)
        enabled == ListHas(enabledModels, mid)
    IN  /\ lastOp' = [NoOp EXCEPT !.op = "update", !.mid = mid,
                                  !.sent = IF enabled THEN "activate" ELSE "deactivate"]
        /\ tick' = 1 - tick
        /\ UNCHANGED enabledModels
        /\ UNCHANGED coreVars

\* onFocusLost(_, note, index); changed is what update_fields returns
OnFocusLost(id, index, changed) ==
    LET mid == Str(id)
        enabled == ListHas(enabledModels, mid)
    IN  /\ lastOp' = IF ~enabled
                     THEN [NoOp EXCEPT !.op = "focus", !.mid = mid, !.ret = "False"]
                     ELSE [NoOp EXCEPT !.op = "focus", !.mid = mid, !.ret = "False",
                                       !.updated = TRUE,
                                       !.refreshed = IF changed
                                                     THEN (index + 1) % fields ELSE -1]
        /\ tick' = 1 - tick
        /\ UNCHANGED enabledModels
        /\ UNCHANGED coreVars

NextEdit ==
    \E id \in NoteTypeIds :
        \/ OnToggle(id)
        \/ UpdateButton(id)
        \/ \E index \in 0..(fields - 1), changed \in BOOLEAN : OnFocusLost(id, index, changed)

\* the lists of note type ids without duplicates
RECURSIVE Arrangements(_)
Arrangements(S) ==
    {<<>>} \cup UNION {{<<x>> \o rest : rest \in Arrangements(S \ {x})} : x \in S}

InitEdit ==
    /\ InitCore({<<2, 1, 54>>}, {LineBody}, 1..MaxFields, 0, TRUE)
    /\ enabledModels \in Arrangements({Str(id) : id \in NoteTypeIds})
    /\ tick = 0
    /\ lastOp = NoOp

SpecEdit == InitEdit /\ [][NextEdit]_vars

---------------------------------------------------------------------------
(* The whole module *)

Init ==
    /\ InitCore({<<2, 1, 49>>, <<2, 1, 51>>, <<2, 1, 54>>}, {LineBlue}, {1},
                1, FALSE)
    /\ enabledModels \in {<<>>, <<Str(1)>>}
    /\ tick = 0
    /\ lastOp = NoOp

Next == NextCore \/ NextEdit

Spec == Init /\ [][Next]_vars


---------------------------------------------------------------------------
(* Properties of the version dispatch *)

TripleLess(v, w) ==
    \/ v[1] < w[1]
    \/ v[1] = w[1] /\ v[2] < w[2]
    \/ v[1] = w[1] /\ v[2] = w[2] /\ v[3] < w[3]

TierOfTriple(v) ==
    IF TripleLess(v, <<2, 1, 50>>) THEN "Legacy"
    ELSE IF TripleLess(v, <<2, 1, 54>>) THEN "Unsupported"
    ELSE "Modern"

IsUnsupportedWarning(w) == w = "unsupported"

IsParseWarning(w) == w = "oneliner"

C1_Classified ==
    /\ tier = "none" => warnings = <<>>
    /\ (tier # "none" /\ Len(hostVersion) = 3) =>
          /\ tier = TierOfTriple(hostVersion)
          /\ Len(SelectSeq(warnings, IsUnsupportedWarning))
                = IF tier = "Unsupported" THEN 1 ELSE 0

\* C1: a host version that is a numeric triple below (2,1,50) selects Legacy,
\* one at or above (2,1,54) selects Modern, one in between selects Unsupported
\* with exactly one warning at load; Legacy and Modern load without a warning,
\* and once made the selection never changes.
C1_VersionDispatch ==
    /\ []C1_Classified
    /\ [][tier # "none" => tier' = tier]_vars

C1_Witness ==
    /\ hostVersion = <<2, 1, 51>>
    /\ tier = "Unsupported"
    /\ invocations = 1
    /\ warnings = <<"unsupported">>

---------------------------------------------------------------------------
(* Properties of extraction *)

CssLines == Split(css, "\n")

\* the line holds .tone at position i
ToneAt(line, i) == i + 4 <= Len(line) /\ \A j \in 0..4 : line[i + j] = DotTone[j + 1]

CandidateOf(t, line) ==
    IF t = "Modern" THEN \E i \in 1..Len(line) : ToneAt(line, i) ELSE ToneAt(line, 1)

Extracted == invocations = 1 /\ tier \in {"Legacy", "Modern"}

\* C2: in both tiers every candidate line that matches the rule pattern gives
\* one rule and no warning, every candidate that does not match gives no rule
\* and one warning, and the other lines give neither.
C2_ExtractionPartition ==
    Extracted =>
        /\ Len(rules) = Cardinality({j \in 1..Len(CssLines) :
                            CandidateOf(tier, CssLines[j]) /\ RuleSearch(CssLines[j]).found})
        /\ Len(SelectSeq(warnings, IsParseWarning))
              = Cardinality({j \in 1..Len(CssLines) :
                            CandidateOf(tier, CssLines[j]) /\ ~RuleSearch(CssLines[j]).found})
        /\ ((\A j \in 1..Len(CssLines) : ~CandidateOf("Modern", CssLines[j]))
               => rules = <<>> /\ warnings = <<>>)

C2_Witness ==
    /\ Extracted
    /\ tier = "Modern"
    /\ css = Join(<<LineUnclosed, LineIndented>>, "\n")
    /\ rules = <<LineIndented>>
    /\ warnings = <<"oneliner">>

IsSelector(str) == Len(str) = 6 /\ ToneAt(str, 1) /\ IsDigit(str[6])

NoClosingBrace(str) == \A j \in 1..Len(str) : str[j] # "}"

\* the <<selector, block>> pairs that stand in the line as selector, spaces,
\* {block}, the block holding no closing brace
RuleTexts(line) ==
    UNION {UNION {{<<SubSeq(line, i, i + 5), SubSeq(line, o + 1, c - 1)>> :
                      c \in {c \in (o + 1)..Len(line) :
                                /\ line[c] = "}"
                                /\ NoClosingBrace(SubSeq(line, o + 1, c - 1))}} :
                  o \in {o \in (i + 6)..Len(line) :
                            /\ line[o] = "{"
                            /\ \A j \in (i + 6)..(o - 1) : line[j] = " "}} :
           i \in {i \in 1..Len(line) : ToneAt(line, i) /\ i + 5 <= Len(line)}}

\* the selector and declaration block of the accepted rule number j
AcceptedParts(j) ==
    IF tier = "Legacy" THEN {<<rules[j][1], rules[j][2]>>}
    ELSE {sb \in RuleTexts(rules[j]) : IsDigit(sb[1][6])}

\* C3 as stated: every accepted rule has a selector tone-and-a-digit and a
\* declaration block that is not empty.
C3_BlockNeverEmpty ==
    Extracted =>
        \A j \in 1..Len(rules) :
            /\ AcceptedParts(j) # {}
            /\ \A sb \in AcceptedParts(j) : IsSelector(sb[1]) /\ sb[2] # <<>>

\* C3 as amended: every accepted rule has a selector .tone-and-one-digit and a
\* declaration block without a closing brace, standing as selector, spaces,
\* {block} in a line of the stylesheet; the block may be empty.
C3_AcceptedRuleShape ==
    Extracted =>
        \A j \in 1..Len(rules) :
            /\ AcceptedParts(j) # {}
            /\ \A sb \in AcceptedParts(j) :
                  /\ IsSelector(sb[1])
                  /\ NoClosingBrace(sb[2])
                  /\ \E l \in 1..Len(CssLines) : sb \in RuleTexts(CssLines[l])

C3_Witness ==
    /\ Extracted
    /\ tier = "Legacy"
    /\ css = LineEmptyBody
    /\ rules = <<<<SubSeq(LineEmptyBody, 1, 6), <<>>>>>>


---------------------------------------------------------------------------
(* Properties of the Modern rules *)

IsMatchingCandidate54(line) == CandidateOf("Modern", line) /\ RuleTexts(line) # {}
                                   /\ \E sb \in RuleTexts(line) : IsDigit(sb[1][6])

\* the text the rule pattern matches in the line
MatchedText(line) ==
    LET m == RuleSearch(line) IN SubSeq(line, m.start, m.end)

ModernExtracted == Extracted /\ tier = "Modern"

\* C4 as stated: each matching candidate line gives one rule, in line order,
\* which is the matched selector-and-body text: text of the line outside the
\* match is not part of the rule.
C4_MatchedTextOnly ==
    ModernExtracted =>
        LET matching == SelectSeq(CssLines, IsMatchingCandidate54)
        IN  rules = [j \in 1..Len(matching) |-> MatchedText(matching[j])]

\* C4 as amended: each matching candidate line gives one rule, in line order,
\* which is the whole line, verbatim, text outside the match included; the
\* rules reach the web view unchanged.
C4_WholeLineVerbatim ==
    ModernExtracted =>
        /\ rules = SelectSeq(CssLines, IsMatchingCandidate54)
        /\ Len(evals) = 1
        /\ CssRules(evals[1]) = rules
        /\ (css = LineRed => rules = <<LineRed>>)

C4_Witness ==
    /\ ModernExtracted
    /\ css = Join(<<LineTrailing, LineRed>>, "\n")
    /\ rules = <<LineTrailing, LineRed>>

---------------------------------------------------------------------------
(* Properties of the Legacy script *)

HasColon(str) == \E j \in 1..Len(str) : str[j] = ":"

FirstColon(str) == Min({j \in 1..Len(str) : str[j] = ":"})

\* t is str without its surrounding whitespace
IsTrimOf(t, str) ==
    /\ Len(t) > 0 => ~IsSpace(t[1]) /\ ~IsSpace(t[Len(t)])
    /\ \E a \in 0..Len(str) :
          /\ a + Len(t) <= Len(str)
          /\ SubSeq(str, a + 1, a + Len(t)) = t
          /\ \A j \in 1..Len(str) : (j <= a \/ j > a + Len(t)) => IsSpace(str[j])

\* the segments of a declaration block that hold a colon, in order
KeptSegments(block) == SelectSeq(Split(block, ";"), HasColon)

\* the number of statements the rules before rule number r account for
RECURSIVE StatementsBefore(_, _)
StatementsBefore(rs, r) ==
    IF r <= 1 THEN 0
    ELSE StatementsBefore(rs, r - 1) + Len(KeptSegments(rs[r - 1][2]))

LegacyDispatched == Extracted /\ tier = "Legacy" /\ Len(evals) = 1

\* the statement number k of rule number r is the pair of the rule's k-th
\* segment with a colon: split at the first colon, both parts trimmed
PairOfSegment(body, r, k) ==
    LET seg == KeptSegments(rules[r][2])[k]
        st == body[StatementsBefore(rules, r) + k]
    IN  /\ st.sel = rules[r][1]
        /\ IsTrimOf(st.prop, SubSeq(seg, 1, FirstColon(seg) - 1))
        /\ IsTrimOf(st.val, SubSeq(seg, FirstColon(seg) + 1, Len(seg)))

OnePerPair(body) ==
    /\ Len(body) = StatementsBefore(rules, Len(rules) + 1)
    /\ \A r \in 1..Len(rules) :
          \A k \in 1..Len(KeptSegments(rules[r][2])) : PairOfSegment(body, r, k)

Red == <<"r", "e", "d">>

Blue == <<"b", "l", "u", "e">>

Color == <<"c", "o", "l", "o", "r">>

\* C5: in the Legacy tier the declaration block of every accepted rule is split
\* at the semicolons, the segments without a colon are skipped, every other
\* segment is split at its first colon only and both parts are trimmed; the
\* pairs keep the order of the segments.
C5_LegacyPairs ==
    LegacyDispatched =>
        /\ OnePerPair(evals[1].body)
        /\ (css = LineBlue =>
               evals[1].body = <<[sel |-> SubSeq(LineBlue, 1, 6), prop |-> Color, val |-> Blue]>>)

C5_Witness ==
    /\ LegacyDispatched
    /\ css = LineMulti
    /\ Len(evals[1].body) = 2
    /\ evals[1].body[1].val = <<"b", ":", "c">>
    /\ evals[1].body[2].prop = <<"e">>

\* C6 as stated: one statement for every (rule, pair) inside a single
\* iteration over the field roots, and, for the one rule tone1 with the one
\* pair (color, red) and two field roots, two statements in the command, one
\* per field root.
C6_StatementPerFieldRoot ==
    LegacyDispatched =>
        /\ evals[1].kind = "each"
        /\ OnePerPair(evals[1].body)
        /\ (css = LineRed /\ fields = 2 => Len(evals[1].body) = 2)

\* C6 as amended: the command is a single iteration over the field roots whose
\* body holds one statement for every (rule, pair), in extraction order,
\* whatever the number of field roots; executing it performs every statement
\* once per field root, so for the one rule tone1 with the pair (color, red)
\* and two field roots the command holds one statement and two assignments
\* are performed.
C6_StatementPerPair ==
    LegacyDispatched =>
        LET body == evals[1].body
        IN  /\ evals[1].kind = "each"
            /\ evals[1].selector = "div.field"
            /\ OnePerPair(body)
            /\ (css = LineRed => Len(body) = 1)
            /\ ran = 0 => applied = <<>>
            /\ ran = 1 =>
                  /\ Len(applied) = fields * Len(body)
                  /\ \A root \in 1..fields : \A j \in 1..Len(body) :
                        applied[(root - 1) * Len(body) + j]
                           = [root |-> root, sel |-> body[j].sel,
                              prop |-> body[j].prop, val |-> body[j].val]

C6_Witness ==
    /\ LegacyDispatched
    /\ css = LineRed
    /\ fields = 2
    /\ ran = 1
    /\ evals[1].body = <<[sel |-> SubSeq(LineRed, 1, 6), prop |-> Color, val |-> Red]>>
    /\ Len(applied) = 2


---------------------------------------------------------------------------
(* Properties of dispatch and of the scripts in the web view *)

Invoked == invocations' = invocations + 1

\* C7: every call of the injector in the Legacy or the Modern tier hands
\* exactly one script to the web view, also when no rule was extracted (an
\* iteration with an empty body, an empty rule array); a call in the
\* Unsupported tier hands over nothing and warns of nothing.
C7_OneScriptPerInvocation ==
    [][Invoked =>
          /\ tier \in {"Legacy", "Modern"} =>
                /\ Len(evals') = Len(evals) + 1
                /\ SubSeq(evals', 1, Len(evals)) = evals
                /\ tier = "Legacy" =>
                      /\ evals'[Len(evals')].kind = "each"
                      /\ rules' = <<>> => evals'[Len(evals')].body = <<>>
                /\ tier = "Modern" =>
                      /\ evals'[Len(evals')].kind = "insert"
                      /\ Len(evals'[Len(evals')].cssrules) = Len(rules')
          /\ tier = "Unsupported" => evals' = evals /\ warnings' = warnings]_vars

C7_Witness ==
    /\ tier = "Modern"
    /\ css = LineBody
    /\ invocations = 2
    /\ Len(evals) = 2
    /\ evals[2].cssrules = <<>>

\* the rules script k inserted into the sheet of instance inst, in call order
IsCallOf(k, inst, call) == call.script = k /\ call.inst = inst

CallsOf(k, inst) ==
    LET Mine(call) == IsCallOf(k, inst, call)
        mine == SelectSeq(insertCalls, Mine)
    IN  [j \in 1..Len(mine) |-> mine[j].rule]

\* the rules inserted into the sheet of instance inst, in call order
InsertedInto(inst) ==
    LET Mine(call) == call.inst = inst
        mine == SelectSeq(insertCalls, Mine)
    IN  [j \in 1..Len(mine) |-> mine[j].rule]

Reverse(seq) == [j \in 1..Len(seq) |-> seq[Len(seq) + 1 - j]]

ModernRules == SelectSeq(CssLines, IsMatchingCandidate54)

CompleteOn(k, inst) == CallsOf(k, inst) = CssRules(evals[k])

Complete(k) == \A inst \in 1..fields : CompleteOn(k, inst)

\* per sheet, the calls of an earlier script come before those of a later one
DispatchOrder ==
    \A a, b \in 1..Len(insertCalls) :
        (a < b /\ insertCalls[a].inst = insertCalls[b].inst)
            => insertCalls[a].script <= insertCalls[b].script

NeverCancelled ==
    /\ Len(evals') >= Len(evals)
    /\ SubSeq(evals', 1, Len(evals)) = evals
    /\ \A p \in pending : p \in pending' \/ CompleteOn(p[1], p[2])'

---------------------------------------------------------------------------
(* Properties of EditManager *)

Member(list, mid) == \E j \in 1..Len(list) : list[j] = mid

NoDuplicates(list) == \A a, b \in 1..Len(list) : list[a] = list[b] => a = b

Mids == {Str(id) : id \in NoteTypeIds}

HandlerStep ==
    /\ lastOp'.mid \in Mids
    /\ lastOp'.op = "toggle" =>
          /\ Member(enabledModels', lastOp'.mid) # Member(enabledModels, lastOp'.mid)
          /\ \A other \in Mids \ {lastOp'.mid} :
                Member(enabledModels', other) = Member(enabledModels, other)
          /\ lastOp'.sent = "activate" <=> Member(enabledModels', lastOp'.mid)
          /\ lastOp'.sent \in {"activate", "deactivate"}
          /\ lastOp'.saved
    /\ lastOp'.op \in {"update", "focus"} => enabledModels' = enabledModels
    /\ lastOp'.op = "focus" =>
          /\ lastOp'.updated => Member(enabledModels, lastOp'.mid)
          /\ lastOp'.ret = "False"

\* C10: from a list without duplicates, onToggle, updateButton and
\* onFocusLost keep enabledModels without duplicates; onToggle flips the
\* membership of the current note type's id alone, sends the activate command
\* exactly when the id is a member afterwards and saves the config;
\* updateButton and onFocusLost leave the list alone; onFocusLost calls
\* update_fields only for a member id and returns False.
C10_EnabledModels ==
    /\ []NoDuplicates(enabledModels)
    /\ [][tick' # tick => HandlerStep]_vars

C10_Witness ==
    /\ lastOp.op = "toggle"
    /\ lastOp.sent = "deactivate"
    /\ lastOp.mid = Str(13)
    /\ enabledModels = <<Str(2), Str(1)>>

===========================================================================
